---- MODULE Spec2Model ----
(***************************************************************************)
(* cidr: expansion of command-line address tokens (expand_args), parsing   *)
(* of a resolved specifier into a network (parse_network) and the stanza   *)
(* printed for a network (print_network), driven by main.                  *)
(*                                                                         *)
(* Strings are sequences of one-character strings.  A 32-bit value is the  *)
(* sequence of its 4 octets, most significant first (the layout of         *)
(* Ipv4Addr and of u32::from(Ipv4Addr)); a 64-bit value is the sequence of *)
(* its 8 bytes, most significant first.                                    *)
(***************************************************************************)
EXTENDS Integers, Sequences, FiniteSets, TLC

VARIABLES
    args,      \* cli.addresses: the raw tokens
    mask,      \* cli.mask: <<>> for None, <<m>> for Some(m)
    pc,        \* position of main: "expand", "loop", "print", "sep", "exit"
    idx,       \* expand_args: index of the token the for loop is at
    last_ip,   \* expand_args: last_ip
    out,       \* expand_args: out
    specs,     \* main: specs, <<>> until expand_args has returned Ok
    i,         \* main: index of the specifier the for loop is at (1-based)
    net,       \* main: net, the network parse_network returned
    locals,    \* print_network: prefix, netaddr, bcast, mask, count of the last call
    stdout,    \* the lines printed so far
    status,    \* "running", "success" (main returned Ok), "failure" (main returned Err)
    err        \* the error main returned: <<>> or <<[context, message]>>

vars == <<args, mask, pc, idx, last_ip, out, specs, i, net, locals, stdout, status, err>>

\* Number of tokens on the command line.
MaxArgs == 2

----------------------------------------------------------------------------
(* Characters and strings *)

DigitChars == <<"0", "1", "2", "3", "4", "5", "6", "7", "8", "9">>

IsDigit(c) == \E d \in 1..10 : DigitChars[d] = c

DigitVal(c) == (CHOOSE d \in 1..10 : DigitChars[d] = c) - 1

\* str::starts_with
StartsWith(s, c) == Len(s) > 0 /\ s[1] = c

\* str::contains
Contains(s, c) == \E k \in 1..Len(s) : s[k] = c

\* str::find: the index of the first c in s, 0 when there is none
Find(s, c) ==
    IF Contains(s, c)
    THEN CHOOSE k \in 1..Len(s) : s[k] = c /\ \A j \in 1..(k - 1) : s[j] # c
    ELSE 0

\* s.splitn(2, c).next(): the part of s before the first c, all of s when there is none
FirstPart(s, c) == IF Contains(s, c) THEN SubSeq(s, 1, Find(s, c) - 1) ELSE s

\* the part of s after the first c
Rest(s, c) == SubSeq(s, Find(s, c) + 1, Len(s))

\* s split at every c
RECURSIVE Split(_, _)
Split(s, c) ==
    IF Contains(s, c) THEN <<FirstPart(s, c)>> \o Split(Rest(s, c), c) ELSE <<s>>

\* the decimal digits of n, no leading zeros (Display of u8)
RECURSIVE DecStr(_)
DecStr(n) ==
    IF n < 10 THEN <<DigitChars[n + 1]>>
    ELSE DecStr(n \div 10) \o <<DigitChars[(n % 10) + 1]>>

\* Reads decimal digits into a u8 with checked arithmetic: -1 on overflow.
RECURSIVE ReadU8(_, _)
ReadU8(s, acc) ==
    IF s = <<>> THEN acc
    ELSE IF acc * 10 + DigitVal(s[1]) > 255 THEN -1
    ELSE ReadU8(Tail(s), acc * 10 + DigitVal(s[1]))

AllDigits(s) == \A k \in 1..Len(s) : IsDigit(s[k])

\* One octet of a dotted quad: 1 to 3 digits, no leading zero, at most 255.
OctetOk(s) ==
    /\ Len(s) \in 1..3
    /\ AllDigits(s)
    /\ (Len(s) > 1 => s[1] # "0")
    /\ ReadU8(s, 0) >= 0

\* Ipv4Addr::from_str: [ok, ip]
ParseIpv4(s) ==
    LET parts == Split(s, ".") IN
    IF Len(parts) = 4 /\ \A k \in 1..4 : OctetOk(parts[k])
    THEN [ok |-> TRUE, ip |-> [k \in 1..4 |-> ReadU8(parts[k], 0)]]
    ELSE [ok |-> FALSE, ip |-> <<>>]

\* Display of Ipv4Addr
FormatIp(ip) ==
    DecStr(ip[1]) \o <<".">> \o DecStr(ip[2]) \o <<".">> \o DecStr(ip[3])
        \o <<".">> \o DecStr(ip[4])

\* u8::from_str: an optional "+", then at least one digit, at most 255: [ok, val]
ParseU8(s) ==
    LET digits == IF StartsWith(s, "+") THEN Tail(s) ELSE s IN
    IF digits # <<>> /\ AllDigits(digits) /\ ReadU8(digits, 0) >= 0
    THEN [ok |-> TRUE, val |-> ReadU8(digits, 0)]
    ELSE [ok |-> FALSE, val |-> 0]

----------------------------------------------------------------------------
(* 32-bit and 64-bit values as byte sequences *)

Bits == 32

RECURSIVE Pow2(_)
Pow2(n) == IF n = 0 THEN 1 ELSE 2 * Pow2(n - 1)

Front(b) == SubSeq(b, 1, Len(b) - 1)

Last(b) == b[Len(b)]

\* bitwise & and | of two bytes
RECURSIVE BitAnd(_, _)
BitAnd(a, b) ==
    IF a = 0 \/ b = 0 THEN 0
    ELSE (a % 2) * (b % 2) + 2 * BitAnd(a \div 2, b \div 2)

BitOr(a, b) == a + b - BitAnd(a, b)

\* b + 1 in the width of b, wrapping
RECURSIVE AddOne(_)
AddOne(b) ==
    IF b = <<>> THEN <<>>
    ELSE IF Last(b) = 255 THEN AddOne(Front(b)) \o <<0>>
    ELSE Front(b) \o <<Last(b) + 1>>

\* b - 1 in the width of b, wrapping
RECURSIVE SubOne(_)
SubOne(b) ==
    IF b = <<>> THEN <<>>
    ELSE IF Last(b) = 0 THEN SubOne(Front(b)) \o <<255>>
    ELSE Front(b) \o <<Last(b) - 1>>

AddOverflows(b) == \A k \in 1..Len(b) : b[k] = 255

SubUnderflows(b) == \A k \in 1..Len(b) : b[k] = 0

\* a > b for two values of the same width
RECURSIVE Gt(_, _)
Gt(a, b) ==
    IF a = <<>> THEN FALSE
    ELSE IF a[1] # b[1] THEN a[1] > b[1]
    ELSE Gt(Tail(a), Tail(b))

\* a small number as a u64
U64(n) == <<0, 0, 0, 0, 0, 0, 0, n>>

\* 1 << n in a width of `width` bytes; a shift by the width or more takes the
\* amount modulo the width in bits (n is below 64 at its only call).
Shl1(n, width) ==
    LET sh == n % (8 * width) IN
    [k \in 1..width |-> IF k = width - (sh \div 8) THEN Pow2(sh % 8) ELSE 0]

\* u8::trailing_zeros of a non-zero byte
RECURSIVE Tz8(_)
Tz8(x) == IF x % 2 = 1 THEN 0 ELSE 1 + Tz8(x \div 2)

\* u32::trailing_zeros: 32 for zero
RECURSIVE TrailingZeros(_)
TrailingZeros(b) ==
    IF b = <<>> THEN 0
    ELSE IF Last(b) # 0 THEN Tz8(Last(b))
    ELSE 8 + TrailingZeros(Front(b))

----------------------------------------------------------------------------
(* Ipv4Network *)

\* Ipv4Network::mask: prefix one-bits, then zero-bits
NetMask(prefix) ==
    [k \in 1..4 |->
        LET ones == IF prefix - 8 * (k - 1) > 8 THEN 8
                    ELSE IF prefix - 8 * (k - 1) < 0 THEN 0
                    ELSE prefix - 8 * (k - 1)
        IN  256 - Pow2(8 - ones)]

\* Ipv4Network::network: addr & mask
NetNetwork(n) == [k \in 1..4 |-> BitAnd(n.addr[k], NetMask(n.prefix)[k])]

\* Ipv4Network::broadcast: addr | !mask
NetBroadcast(n) == [k \in 1..4 |-> BitOr(n.addr[k], 255 - NetMask(n.prefix)[k])]

NoNet == [addr |-> <<>>, prefix |-> 0]

----------------------------------------------------------------------------
(* Errors: the context wrap_err adds (<<>> when none) and the message of the
   error it wraps *)

MsgAddrSyntax ==
    <<"i", "n", "v", "a", "l", "i", "d", " ", "I", "P", "v", "4", " ",
      "a", "d", "d", "r", "e", "s", "s", " ", "s", "y", "n", "t", "a", "x">>

MsgInvalidIp ==
    <<"I", "n", "v", "a", "l", "i", "d", " ", "I", "P", " ",
      "a", "d", "d", "r", "e", "s", "s">>

MsgInvalidMask ==
    <<"I", "n", "v", "a", "l", "i", "d", " ", "n", "e", "t", "w", "o", "r", "k", " ",
      "m", "a", "s", "k">>

MsgBuildFailed ==
    <<"F", "a", "i", "l", "e", "d", " ", "t", "o", " ", "b", "u", "i", "l", "d", " ",
      "n", "e", "t", "w", "o", "r", "k", " ", "f", "r", "o", "m", " ", "m", "a", "s", "k">>

MsgInvalidFormat ==
    <<"I", "n", "v", "a", "l", "i", "d", " ", "a", "d", "d", "r", "e", "s", "s", "/",
      "p", "r", "e", "f", "i", "x", " ", "f", "o", "r", "m", "a", "t">>

MsgInvalidPrefix ==
    <<"i", "n", "v", "a", "l", "i", "d", " ", "p", "r", "e", "f", "i", "x">>

MsgInvalidAddr ==
    <<"i", "n", "v", "a", "l", "i", "d", " ", "a", "d", "d", "r", "e", "s", "s", ":", " ">>

MsgInvalidCidr ==
    <<"i", "n", "v", "a", "l", "i", "d", " ", "c", "i", "d", "r", " ",
      "f", "o", "r", "m", "a", "t", ":", " ">>

Error(context, message) == [context |-> context, message |-> message]

----------------------------------------------------------------------------
(* expand_args *)

DefaultIp == <<192, 168, 1, 1>>

\* Faulty variant of ExpandToken: an explicit-override token does not become the
\* last seen address.
ExpandTokenStale(raw, last) ==
    IF StartsWith(raw, "/")
    THEN LET tok == Tail(raw) IN
         IF Contains(tok, "/")
         THEN LET ip == ParseIpv4(FirstPart(tok, "/")) IN
              IF ip.ok
              THEN [ok |-> TRUE, spec |-> tok, last |-> last]
              ELSE [ok |-> FALSE, spec |-> <<>>, last |-> last]
         ELSE [ok |-> TRUE, spec |-> FormatIp(last) \o <<"/">> \o tok, last |-> last]
    ELSE LET ip == ParseIpv4(FirstPart(raw, "/")) IN
         IF ip.ok
         THEN [ok |-> TRUE, spec |-> raw, last |-> ip.ip]
         ELSE [ok |-> FALSE, spec |-> <<>>, last |-> last]

\* Faulty variant of ExpandToken: an explicit-override token keeps its leading "/".
ExpandTokenKeepSlash(raw, last) ==
    IF StartsWith(raw, "/")
    THEN LET tok == Tail(raw) IN
         IF Contains(tok, "/")
         THEN LET ip == ParseIpv4(FirstPart(tok, "/")) IN
              IF ip.ok
              THEN [ok |-> TRUE, spec |-> raw, last |-> ip.ip]
              ELSE [ok |-> FALSE, spec |-> <<>>, last |-> last]
         ELSE [ok |-> TRUE, spec |-> FormatIp(last) \o <<"/">> \o tok, last |-> last]
    ELSE LET ip == ParseIpv4(FirstPart(raw, "/")) IN
         IF ip.ok
         THEN [ok |-> TRUE, spec |-> raw, last |-> ip.ip]
         ELSE [ok |-> FALSE, spec |-> <<>>, last |-> last]

\* Faulty variant of ExpandToken: the address of an explicit-override token is not
\* parsed, the token is passed on as it is.
ExpandTokenUnchecked(raw, last) ==
    IF StartsWith(raw, "/")
    THEN LET tok == Tail(raw) IN
         IF Contains(tok, "/")
         THEN [ok |-> TRUE, spec |-> tok, last |-> last]
         ELSE [ok |-> TRUE, spec |-> FormatIp(last) \o <<"/">> \o tok, last |-> last]
    ELSE LET ip == ParseIpv4(FirstPart(raw, "/")) IN
         IF ip.ok
         THEN [ok |-> TRUE, spec |-> raw, last |-> ip.ip]
         ELSE [ok |-> FALSE, spec |-> <<>>, last |-> last]

\* One iteration of the for loop of expand_args, on token raw with last_ip = last:
\* ok is FALSE when `?` returns the error; spec is the entry pushed to out.
ExpandToken(raw, last) ==
    IF StartsWith(raw, "/")
    THEN LET tok == Tail(raw) IN
         IF Contains(tok, "/")
         THEN LET ip == ParseIpv4(FirstPart(tok, "/")) IN
              IF ip.ok
              THEN [ok |-> TRUE, spec |-> tok, last |-> ip.ip]
              ELSE [ok |-> FALSE, spec |-> <<>>, last |-> last]
         ELSE [ok |-> TRUE, spec |-> FormatIp(last) \o <<"/">> \o tok, last |-> last]
    ELSE LET ip == ParseIpv4(FirstPart(raw, "/")) IN
         IF ip.ok
         THEN [ok |-> TRUE, spec |-> raw, last |-> ip.ip]
         ELSE [ok |-> FALSE, spec |-> <<>>, last |-> last]

\* Variant of ExpandError: the error is wrapped in a context holding the token.
ExpandErrorWithToken(raw) == Error(raw, MsgAddrSyntax)

\* The error `?` returns from expand_args: the AddrParseError, no context added.
ExpandError(raw) == Error(<<>>, MsgAddrSyntax)

----------------------------------------------------------------------------
(* parse_network *)

\* Ipv4Network::new: the address is kept as given; fails for a prefix above 32
NetworkNew(ip, prefix) ==
    IF prefix > Bits
    THEN [ok |-> FALSE, net |-> NoNet, message |-> MsgInvalidPrefix]
    ELSE [ok |-> TRUE, net |-> [addr |-> ip, prefix |-> prefix], message |-> <<>>]

\* Ipv4Network::from_str: "addr" or "addr/prefix" with exactly one "/"; a missing
\* prefix is 32.  (A suffix in dotted-quad form is outside the inputs modelled.)
NetworkFromStr(s) ==
    LET addr_str == FirstPart(s, "/")
        ip       == ParseIpv4(addr_str)
        prefix   == IF Contains(s, "/") THEN ParseU8(Rest(s, "/"))
                    ELSE [ok |-> TRUE, val |-> Bits]
    IN  IF Contains(s, "/") /\ Contains(Rest(s, "/"), "/")
        THEN [ok |-> FALSE, net |-> NoNet, message |-> MsgInvalidCidr \o s]
        ELSE IF ~ip.ok
        THEN [ok |-> FALSE, net |-> NoNet, message |-> MsgInvalidAddr \o addr_str]
        ELSE IF ~prefix.ok
        THEN [ok |-> FALSE, net |-> NoNet, message |-> MsgInvalidPrefix]
        ELSE NetworkNew(ip.ip, prefix.val)

\* The number of leading one-bits of a byte
RECURSIVE LeadingOnes8(_)
LeadingOnes8(x) == IF x < 128 THEN 0 ELSE 1 + LeadingOnes8((2 * x) % 256)

\* Faulty variant of MaskPrefix: the number of leading one-bits of the mask.
MaskPrefixLeadingOnes(mask_ip) ==
    IF mask_ip[1] # 255 THEN LeadingOnes8(mask_ip[1])
    ELSE IF mask_ip[2] # 255 THEN 8 + LeadingOnes8(mask_ip[2])
    ELSE IF mask_ip[3] # 255 THEN 16 + LeadingOnes8(mask_ip[3])
    ELSE 24 + LeadingOnes8(mask_ip[4])

\* The prefix parse_network derives from a mask: 32 - mask_u32.trailing_zeros()
MaskPrefix(mask_ip) == Bits - TrailingZeros(mask_ip)

\* Faulty variant of ParseNetwork: with a mask, only the part of the specifier
\* before its "/" is parsed as the address.
ParseNetworkAddrPart(address, m) ==
    IF m # <<>>
    THEN LET ip      == ParseIpv4(FirstPart(address, "/"))
             mask_ip == ParseIpv4(m[1])
             built   == NetworkNew(ip.ip, MaskPrefix(mask_ip.ip))
         IN  IF ~ip.ok
             THEN [ok |-> FALSE, net |-> NoNet, err |-> Error(MsgInvalidIp, MsgAddrSyntax)]
             ELSE IF ~mask_ip.ok
             THEN [ok |-> FALSE, net |-> NoNet, err |-> Error(MsgInvalidMask, MsgAddrSyntax)]
             ELSE IF ~built.ok
             THEN [ok |-> FALSE, net |-> NoNet, err |-> Error(MsgBuildFailed, built.message)]
             ELSE [ok |-> TRUE, net |-> built.net, err |-> <<>>]
    ELSE LET parsed == NetworkFromStr(address) IN
         IF parsed.ok
         THEN [ok |-> TRUE, net |-> parsed.net, err |-> <<>>]
         ELSE [ok |-> FALSE, net |-> NoNet, err |-> Error(MsgInvalidFormat, parsed.message)]

\* parse_network(address, mask): [ok, net, err]
ParseNetwork(address, m) ==
    IF m # <<>>
    THEN LET ip      == ParseIpv4(address)
             mask_ip == ParseIpv4(m[1])
             built   == NetworkNew(ip.ip, MaskPrefix(mask_ip.ip))
         IN  IF ~ip.ok
             THEN [ok |-> FALSE, net |-> NoNet, err |-> Error(MsgInvalidIp, MsgAddrSyntax)]
             ELSE IF ~mask_ip.ok
             THEN [ok |-> FALSE, net |-> NoNet, err |-> Error(MsgInvalidMask, MsgAddrSyntax)]
             ELSE IF ~built.ok
             THEN [ok |-> FALSE, net |-> NoNet, err |-> Error(MsgBuildFailed, built.message)]
             ELSE [ok |-> TRUE, net |-> built.net, err |-> <<>>]
    ELSE LET parsed == NetworkFromStr(address) IN
         IF parsed.ok
         THEN [ok |-> TRUE, net |-> parsed.net, err |-> <<>>]
         ELSE [ok |-> FALSE, net |-> NoNet, err |-> Error(MsgInvalidFormat, parsed.message)]

----------------------------------------------------------------------------
(* print_network *)

\* Faulty variant of Count: the shift is done in 32 bits.
CountU32(prefix) == <<0, 0, 0, 0>> \o Shl1(Bits - prefix, 4)

\* count: u64 = 1 << (32 - prefix)
Count(prefix) == Shl1(Bits - prefix, 8)

\* usable = if count > 2 { count - 2 } else { 0 }
Usable(count) == IF Gt(count, U64(2)) THEN SubOne(SubOne(count)) ELSE U64(0)

\* A printed line: its label and the value shown after it (<<>> when none).  The
\* rendering of the value (hex, dotted quad, decimal, padding, colour) is left out.
Line(label, value) == [label |-> label, value |-> value]

\* The header line "netaddr/prefix:"
Header(netaddr, prefix) == [label |-> "header", value |-> netaddr, prefix |-> prefix]

\* The line println!() prints between two stanzas
BlankLine == Line("", <<>>)

\* The First Host and Last Host lines: netaddr + 1 and bcast - 1 in 32 bits
HostLines(netaddr, bcast) ==
    <<Line("First Host:", AddOne(netaddr)), Line("Last Host:", SubOne(bcast))>>

\* Faulty variant of ShowHosts: usable >= 0.
ShowHostsFromZero(usable) == ~Gt(U64(0), usable)

\* Whether print_network prints the host lines
ShowHosts(usable) == Gt(usable, U64(0))

\* The lines print_network prints for net n
Stanza(n) ==
    LET prefix  == n.prefix
        netaddr == NetNetwork(n)
        bcast   == NetBroadcast(n)
        count   == Count(prefix)
        usable  == Usable(count)
        top     == << Header(netaddr, prefix),
                      Line("Network:", netaddr),
                      Line("Broadcast:", bcast),
                      Line("Netmask:", NetMask(prefix)) >>
    IN  IF count = U64(1)
        THEN top \o <<Line("1 Address Total:", <<>>)>>
        ELSE top
             \o (IF ShowHosts(usable) THEN HostLines(netaddr, bcast) ELSE <<>>)
             \o <<Line("Usable Addrs:", usable)>>

\* Whether the u32 arithmetic of print_network on net n leaves 32 bits
Wraps(n) ==
    /\ Count(n.prefix) # U64(1)
    /\ ShowHosts(Usable(Count(n.prefix)))
    /\ (AddOverflows(NetNetwork(n)) \/ SubUnderflows(NetBroadcast(n)))

\* The locals of print_network for net n
Locals(n) ==
    [prefix  |-> n.prefix,
     netaddr |-> NetNetwork(n),
     bcast   |-> NetBroadcast(n),
     mask    |-> NetMask(n.prefix),
     count   |-> Count(n.prefix),
     wrapped |-> Wraps(n)]

NoLocals == [prefix |-> 0, netaddr |-> <<>>, bcast |-> <<>>, mask |-> <<>>,
             count |-> <<>>, wrapped |-> FALSE]

----------------------------------------------------------------------------
(* The command line *)

\* The tokens tried: 10.0.0.1/24, /16, /172.16.5.9/30, 10.0.0.999/24,
\* /10.0.0.999/24, /24, 255.255.255.255/32, 0.0.0.0/0, 10.0.0.1/33, /ab,
\* 10.0.0.1, 192.168.1.0/31
Tokens ==
    {
      <<"1", "0", ".", "0", ".", "0", ".", "1", "/", "2", "4">>,
      <<"/", "1", "6">>,
      <<"/", "1", "7", "2", ".", "1", "6", ".", "5", ".", "9", "/", "3", "0">>,
      <<"1", "0", ".", "0", ".", "0", ".", "9", "9", "9", "/", "2", "4">>,
      <<"/", "1", "0", ".", "0", ".", "0", ".", "9", "9", "9", "/", "2", "4">>,
      <<"/", "2", "4">>,
      <<"2", "5", "5", ".", "2", "5", "5", ".", "2", "5", "5", ".", "2", "5", "5", "/", "3", "2">>,
      <<"0", ".", "0", ".", "0", ".", "0", "/", "0">>,
      <<"1", "0", ".", "0", ".", "0", ".", "1", "/", "3", "3">>,
      <<"/", "a", "b">>,
      <<"1", "0", ".", "0", ".", "0", ".", "1">>,
      <<"1", "9", "2", ".", "1", "6", "8", ".", "1", ".", "0", "/", "3", "1">> }

\* The --mask options tried: none, 255.255.248.0, 255.0.255.0, 0.0.0.0,
\* 255.255.255.255, 255.255.0
Masks ==
    { <<>>,
      <<<<"2", "5", "5", ".", "2", "5", "5", ".", "2", "4", "8", ".", "0">>>>,
      <<<<"2", "5", "5", ".", "0", ".", "2", "5", "5", ".", "0">>>>,
      <<<<"0", ".", "0", ".", "0", ".", "0">>>>,
      <<<<"2", "5", "5", ".", "2", "5", "5", ".", "2", "5", "5", ".", "2", "5", "5">>>>,
      <<<<"2", "5", "5", ".", "2", "5", "5", ".", "0">>>> }

RECURSIVE SeqsUpTo(_, _)
SeqsUpTo(S, n) ==
    IF n = 0 THEN {<<>>}
    ELSE SeqsUpTo(S, n - 1)
         \cup {Append(q, x) : q \in {r \in SeqsUpTo(S, n - 1) : Len(r) = n - 1}, x \in S}

----------------------------------------------------------------------------
(* main *)

\* The state expand_args starts in, for a command line drawn from the sets above
Init ==
    /\ args \in SeqsUpTo(Tokens, MaxArgs)
    /\ mask \in Masks
    /\ pc = "expand"
    /\ idx = 1
    /\ last_ip = DefaultIp
    /\ out = <<>>
    /\ specs = <<>>
    /\ i = 0
    /\ net = NoNet
    /\ locals = NoLocals
    /\ stdout = <<>>
    /\ status = "running"
    /\ err = <<>>

\* expand_args, one iteration of `for raw in raw_args`; on a parse error the
\* function returns it and main returns it in turn.
ExpandStep ==
    /\ pc = "expand"
    /\ idx <= Len(args)
    /\ LET r == ExpandToken(args[idx], last_ip) IN
       IF r.ok
       THEN /\ out' = Append(out, r.spec)
            /\ last_ip' = r.last
            /\ idx' = idx + 1
            /\ UNCHANGED <<pc, status, err>>
       ELSE /\ out' = <<>>
            /\ pc' = "exit"
            /\ status' = "failure"
            /\ err' = <<ExpandError(args[idx])>>
            /\ UNCHANGED <<last_ip, idx>>
    /\ UNCHANGED <<args, mask, specs, i, net, locals, stdout>>

\* expand_args returns Ok(out); main enters its for loop
ExpandReturn ==
    /\ pc = "expand"
    /\ idx > Len(args)
    /\ specs' = out
    /\ i' = 1
    /\ pc' = "loop"
    /\ UNCHANGED <<args, mask, idx, last_ip, out, net, locals, stdout, status, err>>

\* Faulty variant of ParseStep: a rejected specifier is skipped and the loop goes on.
ParseStepKeepGoing ==
    /\ pc = "loop"
    /\ i <= Len(specs)
    /\ LET r == ParseNetwork(specs[i], mask) IN
       IF r.ok
       THEN /\ net' = r.net
            /\ pc' = "print"
            /\ UNCHANGED <<status, err>>
       ELSE /\ pc' = "sep"
            /\ status' = "failure"
            /\ err' = <<r.err>>
            /\ UNCHANGED net
    /\ UNCHANGED <<args, mask, idx, last_ip, out, specs, i, locals, stdout>>

\* main: let net = parse_network(spec, cli.mask.as_deref())?
ParseStep ==
    /\ pc = "loop"
    /\ i <= Len(specs)
    /\ LET r == ParseNetwork(specs[i], mask) IN
       IF r.ok
       THEN /\ net' = r.net
            /\ pc' = "print"
            /\ UNCHANGED <<status, err>>
       ELSE /\ pc' = "exit"
            /\ status' = "failure"
            /\ err' = <<r.err>>
            /\ UNCHANGED net
    /\ UNCHANGED <<args, mask, idx, last_ip, out, specs, i, locals, stdout>>

\* main: print_network(&net)
PrintStep ==
    /\ pc = "print"
    /\ stdout' = stdout \o Stanza(net)
    /\ locals' = Locals(net)
    /\ pc' = "sep"
    /\ UNCHANGED <<args, mask, idx, last_ip, out, specs, i, net, status, err>>

\* main: if i + 1 < specs.len() { println!() }, and the next iteration
Separator ==
    /\ pc = "sep"
    /\ stdout' = IF i < Len(specs) THEN Append(stdout, BlankLine) ELSE stdout
    /\ i' = i + 1
    /\ pc' = "loop"
    /\ UNCHANGED <<args, mask, idx, last_ip, out, specs, net, locals, status, err>>

\* main: the for loop is over, Ok(())
Finish ==
    /\ pc = "loop"
    /\ i > Len(specs)
    /\ pc' = "exit"
    /\ status' = "success"
    /\ UNCHANGED <<args, mask, idx, last_ip, out, specs, i, net, locals, stdout, err>>

Next ==
    \/ ExpandStep
    \/ ExpandReturn
    \/ ParseStep
    \/ PrintStep
    \/ Separator
    \/ Finish

Spec == Init /\ [][Next]_vars

----------------------------------------------------------------------------
(* print_network over the prefix lengths: one token "A/p" on the command line,
   no --mask *)

\* The addresses tried
NetAddrs ==
    { <<0, 0, 0, 0>>, <<255, 255, 255, 255>>, <<10, 0, 0, 0>>, <<10, 0, 0, 1>>,
      <<192, 168, 1, 0>>, <<127, 255, 255, 255>>, <<128, 0, 0, 0>>,
      <<172, 16, 5, 9>> }

InitNet ==
    /\ args \in {<<FormatIp(a) \o <<"/">> \o DecStr(p)>> : a \in NetAddrs, p \in 0..Bits}
    /\ mask = <<>>
    /\ pc = "expand"
    /\ idx = 1
    /\ last_ip = DefaultIp
    /\ out = <<>>
    /\ specs = <<>>
    /\ i = 0
    /\ net = NoNet
    /\ locals = NoLocals
    /\ stdout = <<>>
    /\ status = "running"
    /\ err = <<>>

SpecNet == InitNet /\ [][Next]_vars

----------------------------------------------------------------------------
(* parse_network with --mask: one token and one mask on the command line *)

\* The octets the masks tried are made of
MaskOctets == {0, 1, 128, 248, 254, 255}

\* The tokens tried with a mask: 10.0.0.1, 10.0.0.1/24, 255.255.255.255, /16
MaskTokens ==
    { <<"1", "0", ".", "0", ".", "0", ".", "1">>,
      <<"1", "0", ".", "0", ".", "0", ".", "1", "/", "2", "4">>,
      <<"2", "5", "5", ".", "2", "5", "5", ".", "2", "5", "5", ".", "2", "5", "5">>,
      <<"/", "1", "6">> }

InitMask ==
    /\ args \in {<<tok>> : tok \in MaskTokens}
    /\ mask \in {<<FormatIp(m)>> : m \in [1..4 -> MaskOctets]}
                \cup {<<<<"2", "5", "5", ".", "2", "5", "5", ".", "0">>>>}
    /\ pc = "expand"
    /\ idx = 1
    /\ last_ip = DefaultIp
    /\ out = <<>>
    /\ specs = <<>>
    /\ i = 0
    /\ net = NoNet
    /\ locals = NoLocals
    /\ stdout = <<>>
    /\ status = "running"
    /\ err = <<>>

SpecMask == InitMask /\ [][Next]_vars

----------------------------------------------------------------------------
(* Properties of expand_args *)

\* The three token forms
IsShorthand(raw) == StartsWith(raw, "/") /\ ~Contains(Tail(raw), "/")

IsOverride(raw) == StartsWith(raw, "/") /\ Contains(Tail(raw), "/")

IsBare(raw) == ~StartsWith(raw, "/")

\* The address substring a bare or explicit-override token embeds
EmbeddedAddr(raw) ==
    IF StartsWith(raw, "/") THEN FirstPart(Tail(raw), "/") ELSE FirstPart(raw, "/")

\* A bare or explicit-override token whose address substring is no IPv4 address
Malformed(raw) == ~IsShorthand(raw) /\ ~ParseIpv4(EmbeddedAddr(raw)).ok

\* The address of the nearest bare or explicit-override token before position k,
\* the default when there is none
NearestBefore(k) ==
    LET earlier == {j \in 1..(k - 1) : ~IsShorthand(args[j])} IN
    IF earlier = {} THEN DefaultIp
    ELSE ParseIpv4(EmbeddedAddr(args[CHOOSE j \in earlier : \A h \in earlier : h <= j])).ip

\* expand_args has returned Ok
Expanded == i >= 1

\* expand_args has returned an error
ExpandFailed == pc = "exit" /\ i = 0

\* q is a valid address, a "/" and a suffix
IsAddrSlashSuffix(q) == Contains(q, "/") /\ ParseIpv4(FirstPart(q, "/")).ok

\* t occurs in m
Occurs(t, m) ==
    \E off \in 0..(Len(m) - Len(t)) : SubSeq(m, off + 1, off + Len(t)) = t

\* C1: the entry of a shorthand token "/p" at position k is "<A>/p", A the address
\* of the nearest bare or explicit-override token before k, or 192.168.1.1 when
\* there is none; the last seen address is that address throughout the loop, so a
\* shorthand token leaves it alone and takes nothing from a later position.
C1_ShorthandInherits ==
    /\ pc = "expand" => last_ip = NearestBefore(idx)
    /\ \A k \in 1..Len(out) :
          IsShorthand(args[k]) =>
              out[k] = FormatIp(NearestBefore(k)) \o <<"/">> \o Tail(args[k])
    /\ \A k \in 1..Len(specs) :
          IsShorthand(args[k]) =>
              specs[k] = FormatIp(NearestBefore(k)) \o <<"/">> \o Tail(args[k])

\* C1 witness: "/16" after "/172.16.5.9/30" became "172.16.5.9/16"
C1_Witness ==
    /\ Expanded
    /\ Len(args) = 2
    /\ IsOverride(args[1])
    /\ IsShorthand(args[2])
    /\ specs[2] = <<"1", "7", "2", ".", "1", "6", ".", "5", ".", "9", "/", "1", "6">>

C3_AllOrNothing ==
    (\E k \in 1..Len(args) : Malformed(args[k])) =>
        /\ ~Expanded
        /\ specs = <<>>
        /\ stdout = <<>>
        /\ pc = "exit" => status = "failure" /\ out = <<>>

\* C3 witness: the run failed on a malformed second token after a valid first one
C3_Witness ==
    /\ pc = "exit"
    /\ status = "failure"
    /\ Len(args) = 2
    /\ ~Malformed(args[1])
    /\ Malformed(args[2])

\* C9, as claimed: the error expand_args returns carries the raw token that failed.
C9_ErrorNamesToken ==
    ExpandFailed =>
        \/ Occurs(args[idx], err[1].context)
        \/ Occurs(args[idx], err[1].message)

\* C9, amended: the error expand_args returns is the address parser's error with no
\* context added, the same for every offending token: it carries neither the raw
\* token nor its address substring; it is returned at the first malformed token.
C9_ErrorIsBareSyntaxError ==
    ExpandFailed =>
        /\ err = <<Error(<<>>, MsgAddrSyntax)>>
        /\ ~Occurs(args[idx], err[1].context)
        /\ ~Occurs(args[idx], err[1].message)
        /\ ~Occurs(EmbeddedAddr(args[idx]), err[1].message)
        /\ Malformed(args[idx])
        /\ \A k \in 1..(idx - 1) : ~Malformed(args[k])

\* C9 witness: expand_args failed on an explicit-override token
C9_Witness == ExpandFailed /\ IsOverride(args[idx])

----------------------------------------------------------------------------
(* Properties of main and parse_network *)

\* The header lines printed so far, one per stanza
Headers == SelectSeq(stdout, LAMBDA l : l.label = "header")

\* A specifier parse_network has to reject without a mask: a malformed address, a
\* prefix that is no unsigned integer, or a prefix above 32
MustReject(q) ==
    \/ ~ParseIpv4(FirstPart(q, "/")).ok
    \/ /\ Contains(q, "/")
       /\ LET suffix == Rest(q, "/") IN
          \/ suffix = <<>>
          \/ ~AllDigits(suffix)
          \/ ReadU8(suffix, 0) < 0
          \/ ReadU8(suffix, 0) > 32

\* The position of the first specifier to reject, Len(specs) + 1 when there is none
FirstRejected ==
    LET bad == {k \in 1..Len(specs) : MustReject(specs[k])} IN
    IF bad = {} THEN Len(specs) + 1
    ELSE CHOOSE k \in bad : \A h \in bad : k <= h

\* The header of the stanza of specifier q
HeaderOf(q) ==
    LET a == ParseIpv4(FirstPart(q, "/")).ip
        p == IF Contains(q, "/") THEN ReadU8(Rest(q, "/"), 0) ELSE 32
    IN  Header(NetNetwork([addr |-> a, prefix |-> p]), p)

\* C8: without a mask and after a successful expansion, stanzas are printed in token
\* order, one per specifier, and none for the first rejected specifier or any later
\* one; the run ends in failure if a specifier is rejected, in success otherwise.
C8_StanzasUpToFirstRejected ==
    (mask = <<>> /\ Expanded) =>
        /\ Len(Headers) < FirstRejected
        /\ \A k \in 1..Len(Headers) : Headers[k] = HeaderOf(specs[k])
        /\ pc = "exit" =>
              /\ Len(Headers) = FirstRejected - 1
              /\ status = IF FirstRejected > Len(specs) THEN "success" ELSE "failure"

\* C8 witness: the second of two specifiers was rejected after the first was printed
C8_Witness ==
    /\ mask = <<>>
    /\ pc = "exit"
    /\ Len(specs) = 2
    /\ FirstRejected = 2
    /\ Len(Headers) = 1
    /\ status = "failure"

\* A valid --mask was given
MaskValid == mask # <<>> /\ ParseIpv4(mask[1]).ok

\* The mask as a 32-bit value
MaskValue == ParseIpv4(mask[1]).ip

\* Bit b (0 the least significant) of the 32-bit value m
BitOf(m, b) == (m[4 - (b \div 8)] \div Pow2(b % 8)) % 2

\* 32 less the position of the lowest set bit of m, 0 when m is zero
LowBitPrefix(m) ==
    LET set == {b \in 0..31 : BitOf(m, b) = 1} IN
    IF set = {} THEN 0
    ELSE 32 - (CHOOSE b \in set : \A c \in set : b <= c)

\* C4, as claimed: with a valid mask M, parse_network on a specifier "A/p" succeeds
\* with the network of address A and prefix 32 - trailing zeros of M.
C4_SuffixIgnored ==
    (MaskValid /\ Expanded /\ pc = "exit" /\ Len(specs) = 1
        /\ IsAddrSlashSuffix(specs[1])) =>
        /\ status = "success"
        /\ net = [addr |-> ParseIpv4(FirstPart(specs[1], "/")).ip,
                  prefix |-> LowBitPrefix(MaskValue)]

\* C4, amended: with a valid mask M, parse_network parses the whole specifier as
\* the address: on a valid address A alone it succeeds with the network of address
\* A and prefix 32 - trailing zeros of M; on a specifier with a "/p" suffix it fails
\* with "Invalid IP address".
C4_WholeSpecifierIsAddress ==
    /\ (MaskValid /\ pc = "print") =>
          /\ ~Contains(specs[i], "/")
          /\ net = [addr |-> ParseIpv4(specs[i]).ip, prefix |-> LowBitPrefix(MaskValue)]
    /\ (MaskValid /\ Expanded /\ pc = "exit") =>
          IF \E k \in 1..Len(specs) : Contains(specs[k], "/")
          THEN /\ status = "failure"
               /\ Contains(specs[i], "/")
               /\ \A k \in 1..(i - 1) : ~Contains(specs[k], "/")
               /\ err = <<Error(MsgInvalidIp, MsgAddrSyntax)>>
          ELSE status = "success"

\* C4 witness: with a valid mask, a bare address was parsed into a network
C4_Witness ==
    /\ MaskValid
    /\ pc = "print"
    /\ specs[i] = <<"1", "0", ".", "0", ".", "0", ".", "1">>
    /\ net = [addr |-> <<10, 0, 0, 1>>, prefix |-> 21]

\* C5: the prefix derived from a mask M is 32 - trailing zeros of M, within 0..32:
\* 21 for 255.255.248.0, 32 for 255.255.255.255, 0 for 0.0.0.0, and 24 for the
\* non-contiguous 255.0.255.0, which is accepted like any other mask.
C5_PrefixFromMask ==
    MaskValid =>
        /\ MaskPrefix(MaskValue) = LowBitPrefix(MaskValue)
        /\ MaskPrefix(MaskValue) \in 0..32
        /\ net # NoNet =>
              /\ net.prefix = LowBitPrefix(MaskValue)
              /\ MaskValue = <<255, 255, 248, 0>> => net.prefix = 21
              /\ MaskValue = <<255, 255, 255, 255>> => net.prefix = 32
              /\ MaskValue = <<0, 0, 0, 0>> => net.prefix = 0
              /\ MaskValue = <<255, 0, 255, 0>> => net.prefix = 24
        /\ (pc = "exit" /\ Expanded /\ \A k \in 1..Len(specs) : ~Contains(specs[k], "/"))
              => status = "success"

\* C5 witness: the non-contiguous mask 255.0.255.0 gave a network of prefix 24
C5_Witness ==
    /\ MaskValid
    /\ MaskValue = <<255, 0, 255, 0>>
    /\ pc = "exit"
    /\ status = "success"
    /\ net.prefix = 24

----------------------------------------------------------------------------
(* Properties of print_network *)

\* a + b + carry in the width of a and b
RECURSIVE AddBytes(_, _, _)
AddBytes(a, b, carry) ==
    IF a = <<>> THEN <<>>
    ELSE AddBytes(Front(a), Front(b), (Last(a) + Last(b) + carry) \div 256)
             \o <<(Last(a) + Last(b) + carry) % 256>>

\* 2^n as a u64, by doubling
RECURSIVE PowerOfTwo(_)
PowerOfTwo(n) ==
    IF n = 0 THEN U64(1)
    ELSE LET half == PowerOfTwo(n - 1) IN AddBytes(half, half, 0)

\* The stanza print_network printed last
LastStanza ==
    LET starts == {k \in 1..Len(stdout) : stdout[k].label = "header"}
        from   == CHOOSE k \in starts : \A h \in starts : h <= k
    IN  SubSeq(stdout, from, Len(stdout))

Labelled(lines, label) == SelectSeq(lines, LAMBDA l : l.label = label)

\* print_network has just returned
Printed == pc = "sep"

\* C6: for every prefix p the address count is 2^(32-p), 2^32 for p = 0, and the
\* usable count is count - 2 when count > 2 and 0 otherwise: 0 for p = 31 and
\* p = 32, 254 for p = 24; it is the value of the usable line where one is printed.
C6_Counts ==
    Printed =>
        LET p == locals.prefix
            c == locals.count
            u == Usable(c)
        IN  /\ c = PowerOfTwo(32 - p)
            /\ p = 0 => c = <<0, 0, 0, 1, 0, 0, 0, 0>>
            /\ p <= 30 => Gt(c, U64(2)) /\ AddOne(AddOne(u)) = c
            /\ p >= 31 => ~Gt(c, U64(2)) /\ u = U64(0)
            /\ p = 24 => u = U64(254)
            /\ p <= 31 => Labelled(LastStanza, "Usable Addrs:") = <<Line("Usable Addrs:", u)>>

\* C6 witness: the stanza of a /0 network, 2^32 addresses, 2^32 - 2 of them usable
C6_Witness ==
    /\ Printed
    /\ locals.prefix = 0
    /\ locals.count = <<0, 0, 0, 1, 0, 0, 0, 0>>
    /\ Labelled(LastStanza, "Usable Addrs:")
           = <<Line("Usable Addrs:", <<0, 0, 0, 0, 255, 255, 255, 254>>)>>

\* C7: the stanza of a single-address network (p = 32, count = 1) holds one combined
\* address line after its header: no network line, no broadcast line, no first-host,
\* last-host or usable-count line.
C7_SingleAddressOneLine ==
    (Printed /\ locals.count = U64(1)) =>
        /\ Len(LastStanza) = 2
        /\ \A k \in 1..Len(LastStanza) :
              LastStanza[k].label \notin
                  {"Network:", "Broadcast:", "First Host:", "Last Host:", "Usable Addrs:"}

\* C10: the first-host and last-host lines are printed exactly when the usable count
\* is above 0, that is for p <= 30; then first host = network + 1 and last host =
\* broadcast - 1 without leaving 32 bits, and network < first <= last < broadcast.
C10_HostRange ==
    Printed =>
        LET p     == locals.prefix
            first == Labelled(LastStanza, "First Host:")
            last  == Labelled(LastStanza, "Last Host:")
        IN  /\ Len(first) = Len(last)
            /\ Len(first) \in {0, 1}
            /\ Len(first) = 1 <=> p <= 30
            /\ Len(first) = 1 <=> Gt(Usable(locals.count), U64(0))
            /\ ~locals.wrapped
            /\ Len(first) = 1 =>
                  /\ first[1].value # <<0, 0, 0, 0>>
                  /\ SubOne(first[1].value) = locals.netaddr
                  /\ last[1].value # <<255, 255, 255, 255>>
                  /\ AddOne(last[1].value) = locals.bcast
                  /\ Gt(first[1].value, locals.netaddr)
                  /\ ~Gt(first[1].value, last[1].value)
                  /\ Gt(locals.bcast, last[1].value)
            /\ (locals.netaddr = <<10, 0, 0, 0>> /\ p = 24) =>
                  /\ first[1].value = <<10, 0, 0, 1>>
                  /\ last[1].value = <<10, 0, 0, 254>>
            /\ (locals.netaddr = <<192, 168, 1, 0>> /\ p = 31) => Len(first) = 0

\* C10 witness: the host lines of 10.0.0.0/24
C10_Witness ==
    /\ Printed
    /\ locals.prefix = 24
    /\ Labelled(LastStanza, "First Host:") = <<Line("First Host:", <<10, 0, 0, 1>>)>>
    /\ Labelled(LastStanza, "Last Host:") = <<Line("Last Host:", <<10, 0, 0, 254>>)>>

====
